---- MODULE Spec2Model ----
(***************************************************************************)
(* Model of server.js: the POST /analyze handler and the local analyzer    *)
(* it falls back to (ema, simpleMomentum, detectOrderBlocks, detectFVG,    *)
(* localAnalyze).                                                          *)
(*                                                                         *)
(* JavaScript values are modelled by what the program does with them:      *)
(*   - a number is an exact rational n/d in lowest terms (the model does   *)
(*     not reproduce IEEE-754 rounding error; toFixed rounding is exact);  *)
(*   - a string is its sequence of characters, compared by code unit as    *)
(*     the relational operators of JavaScript compare two strings;         *)
(*   - null is a value of its own.                                         *)
(* Sequences are 1-based here: JavaScript index i is index i+1.            *)
(***************************************************************************)
EXTENDS Integers, Sequences, FiniteSets, TLC

(***************************************************************************)
(* Rational arithmetic (JavaScript numbers)                                *)
(***************************************************************************)
Abs(x) == IF x < 0 THEN -x ELSE x

Min(a, b) == IF a < b THEN a ELSE b

RECURSIVE Gcd(_, _)
Gcd(a, b) == IF b = 0 THEN a ELSE Gcd(b, a % b)

RECURSIVE Pow(_, _)
Pow(b, e) == IF e = 0 THEN 1 ELSE b * Pow(b, e - 1)

\* n/d with the common factor g taken out
Reduced(n, d, g) == [n |-> n \div g, d |-> d \div g]

\* the rational n/d (d > 0) in lowest terms
Rat(n, d) == Reduced(n, d, Gcd(Abs(n), d))

RInt(k) == [n |-> k, d |-> 1]

\* sums, differences and comparisons over the least common denominator,
\* g being the greatest common divisor of the two denominators
AddOver(x, y, g) == Rat(x.n * (y.d \div g) + y.n * (x.d \div g), (x.d \div g) * y.d)

RAdd(x, y) == AddOver(x, y, Gcd(x.d, y.d))

RSub(x, y) == RAdd(x, [n |-> -y.n, d |-> y.d])

\* products with the cross factors g1 = gcd(x.n, y.d), g2 = gcd(y.n, x.d) removed
MulOver(x, y, g1, g2) ==
  Rat((x.n \div g1) * (y.n \div g2), (x.d \div g2) * (y.d \div g1))

RMul(x, y) == MulOver(x, y, Gcd(Abs(x.n), y.d), Gcd(Abs(y.n), x.d))

RDivInt(x, k) == RMul(x, [n |-> 1, d |-> k])

LtOver(x, y, g) == x.n * (y.d \div g) < y.n * (x.d \div g)

RLt(x, y) == LtOver(x, y, Gcd(x.d, y.d))

RLe(x, y) == ~RLt(y, x)

RAbs(x) == [n |-> Abs(x.n), d |-> x.d]

(***************************************************************************)
(* JavaScript values                                                       *)
(***************************************************************************)
Null == [t |-> "null", n |-> 0, d |-> 1, s |-> <<>>]

\* undefined: closes[0] of an empty array
Undefined == [t |-> "undef", n |-> 0, d |-> 1, s |-> <<>>]

\* NaN: what arithmetic on undefined yields
NaN == [t |-> "nan", n |-> 0, d |-> 1, s |-> <<>>]

Num(x) == [t |-> "num", n |-> x.n, d |-> x.d, s |-> <<>>]

Str(chars) == [t |-> "str", n |-> 0, d |-> 1, s |-> chars]

\* the rational carried by a number value
RatOf(v) == [n |-> v.n, d |-> v.d]

Digits == <<"0", "1", "2", "3", "4", "5", "6", "7", "8", "9">>

\* UTF-16 code unit of a character that occurs in numeric text
CharCode(c) == IF c = "-" THEN 45
               ELSE IF c = "." THEN 46
               ELSE 47 + (CHOOSE i \in 1..10 : Digits[i] = c)

IsDigit(c) == \E i \in 1..10 : Digits[i] = c

DigitVal(c) == (CHOOSE i \in 1..10 : Digits[i] = c) - 1

\* decimal digits of a natural number, no leading zeros ("0" for 0)
RECURSIVE NatText(_)
NatText(k) == IF k < 10 THEN <<Digits[k + 1]>>
              ELSE Append(NatText(k \div 10), Digits[(k % 10) + 1])

\* k written with exactly w digits (leading zeros kept)
RECURSIVE PadText(_, _)
PadText(k, w) == IF w = 0 THEN <<>>
                 ELSE Append(PadText(k \div 10, w - 1), Digits[(k % 10) + 1])

RECURSIVE StripZeros(_)
StripZeros(s) == IF Len(s) > 0 /\ s[Len(s)] = "0"
                 THEN StripZeros(SubSeq(s, 1, Len(s) - 1)) ELSE s

\* the decimal text of m / p, p a power of ten with `digits` zeros
FixedText(negative, m, p, digits) ==
  (IF negative THEN <<"-">> ELSE <<>>) \o NatText(m \div p)
  \o (IF digits = 0 THEN <<>> ELSE <<".">> \o PadText(m % p, digits))

\* a / d rounded to the nearest integer, halves upwards (a >= 0, d > 0)
RoundDiv(a, d) == (2 * a + d) \div (2 * d)

\* Number.prototype.toFixed(digits): round half away from zero, fixed
\* number of decimals, "-" kept for every negative number
ToFixed(x, digits) ==
  FixedText(x.n < 0, RoundDiv(Abs(x.n) * Pow(10, digits), x.d), Pow(10, digits), digits)

\* the shortest decimal text of m / 10^6
ShortText(negative, m, frac) ==
  (IF negative THEN <<"-">> ELSE <<>>) \o NatText(m \div Pow(10, 6))
  \o (IF frac = <<>> THEN <<>> ELSE <<".">> \o frac)

Millionths(x) == (Abs(x.n) * Pow(10, 6)) \div x.d

\* Number::toString of a number with at most 6 decimals
NumberToString(x) ==
  ShortText(x.n < 0, Millionths(x), StripZeros(PadText(Millionths(x) % Pow(10, 6), 6)))

\* value of a run of digits read as a natural number
RECURSIVE DigitsVal(_)
DigitsVal(s) == IF s = <<>> THEN 0
                ELSE 10 * DigitsVal(SubSeq(s, 1, Len(s) - 1)) + DigitVal(s[Len(s)])

\* length of the longest prefix of s made of digits
RECURSIVE DigitRun(_)
DigitRun(s) == IF s = <<>> \/ ~IsDigit(s[1]) THEN 0
               ELSE 1 + DigitRun(Tail(s))

\* the number with integer digits ip and fraction digits fp
Decimal(negative, ip, fp) ==
  Rat((IF negative THEN -1 ELSE 1) * (DigitsVal(ip) * Pow(10, Len(fp)) + DigitsVal(fp)),
      Pow(10, Len(fp)))

\* the fraction digits at the head of rest: after a ".", the digits that follow
FractionOf(rest) ==
  IF rest # <<>> /\ rest[1] = "." THEN SubSeq(rest, 2, DigitRun(Tail(rest)) + 1) ELSE <<>>

\* unsigned text whose first il characters are its integer digits
ParseUnsigned(negative, body, il) ==
  Decimal(negative, SubSeq(body, 1, il), FractionOf(SubSeq(body, il + 1, Len(body))))

ParseSigned(negative, body) == ParseUnsigned(negative, body, DigitRun(body))

\* parseFloat on text of the shape -?digits(.digits)? : the number the
\* longest numeric prefix denotes
ParseText(s) ==
  IF s # <<>> /\ s[1] = "-" THEN ParseSigned(TRUE, Tail(s)) ELSE ParseSigned(FALSE, s)

\* parseFloat(v): a string is parsed, a number goes through its string form
parseFloat(v) == IF v.t = "str" THEN ParseText(v.s)
                 ELSE ParseText(NumberToString(RatOf(v)))

\* ToNumber, as the relational operators apply it to a numeric string
ToNumber(v) == IF v.t = "str" THEN ParseText(v.s) ELSE RatOf(v)

\* s < t for two strings: first differing code unit, else the shorter one
RECURSIVE LexLt(_, _)
LexLt(s, t) ==
  IF t = <<>> THEN FALSE
  ELSE IF s = <<>> THEN TRUE
  ELSE IF s[1] = t[1] THEN LexLt(Tail(s), Tail(t))
  ELSE CharCode(s[1]) < CharCode(t[1])

\* the JavaScript operators a < b, a > b, a <= b, a >= b
JsLt(a, b) == IF a.t = "str" /\ b.t = "str" THEN LexLt(a.s, b.s)
              ELSE RLt(ToNumber(a), ToNumber(b))

JsGt(a, b) == JsLt(b, a)

JsLe(a, b) == ~JsLt(b, a)

JsGe(a, b) == ~JsLt(a, b)

\* truthiness of a number-or-null value: null and 0 are falsy
Truthy(v) == v.t = "str" \/ (v.t = "num" /\ v.n # 0)

(***************************************************************************)
(* Program constants                                                       *)
(***************************************************************************)
Ema9Period == 9

Ema20Period == 20

ObScanLimit == 30

ObCap == 5

FvgCap == 5

LevelDigits == 4

ReasonDigits == 2

\* a slice that keeps the last k elements instead of the first k
SliceBack(arr, k) == SubSeq(arr, Len(arr) - Min(k, Len(arr)) + 1, Len(arr))

\* Array.prototype.slice(0, k)
SliceFront(arr, k) == SubSeq(arr, 1, Min(k, Len(arr)))

(***************************************************************************)
(* ema(values, period): values are numbers (rationals)                     *)
(***************************************************************************)
RECURSIVE SumFrom(_, _, _)
\* one turn of the reduce, its new accumulator computed
SumOn(values, i, acc) == IF acc.d > 0 THEN SumFrom(values, i + 1, acc) ELSE acc

\* values.slice(0, period).reduce((a,b)=>a+b, 0), folded left to right
SumFrom(values, i, acc) ==
  IF i > Len(values) THEN acc ELSE SumOn(values, i, RAdd(acc, values[i]))

\* (values[i] - emaArr[i-1]) * k + emaArr[i-1]
EmaStep(value, prev, k) == RAdd(RMul(RSub(value, prev), k), prev)

RECURSIVE EmaLoop(_, _, _, _)
\* one turn of the loop, emaArr[i] computed
EmaOn(values, k, i, cur) == IF cur.d > 0 THEN EmaLoop(values, k, i + 1, cur) ELSE cur

\* emaArr[i] = (values[i] - emaArr[i-1]) * k + emaArr[i-1], i = period..length-1
EmaLoop(values, k, i, prev) ==
  IF i > Len(values) THEN prev
  ELSE EmaOn(values, k, i, EmaStep(values[i], prev, k))

\* ema without the length guard of line 27: a short input yields the mean
\* computed over the missing slots instead of null
emaUnguarded(values, period) ==
  Num(EmaLoop(values, Rat(2, period + 1), period + 1,
              RDivInt(SumFrom(SliceFront(values, period), 1, RInt(0)), period)))

ema(values, period) ==
  IF Len(values) < period THEN Null
  ELSE Num(EmaLoop(values, Rat(2, period + 1), period + 1,
                   RDivInt(SumFrom(SubSeq(values, 1, period), 1, RInt(0)), period)))

(***************************************************************************)
(* simpleMomentum(closes)                                                  *)
(***************************************************************************)
\* the momentum taken backwards, closes[1] - closes[0]
simpleMomentumBackwards(closes) ==
  IF Len(closes) < 2 THEN RInt(0) ELSE RSub(closes[2], closes[1])

simpleMomentum(closes) ==
  IF Len(closes) < 2 THEN RInt(0) ELSE RSub(closes[1], closes[2])

(***************************************************************************)
(* detectOrderBlocks(candles)                                              *)
(***************************************************************************)
\* the zones the loop body pushes at JavaScript index i
ZonesAt(candles, i) ==
  LET c == candles[i - 1]
      p == candles[i]
      n == candles[i + 1]
      demand == IF JsGt(n.close, n.open) /\ JsLt(n.low, p.low) /\ JsLe(p.low, c.low)
                THEN <<[type |-> "demand", low |-> n.low, high |-> n.close, idx |-> i]>>
                ELSE <<>>
      supply == IF JsGt(n.open, n.close) /\ JsGt(n.high, p.high) /\ JsGe(p.high, c.high)
                THEN <<[type |-> "supply", low |-> n.close, high |-> n.high, idx |-> i]>>
                ELSE <<>>
  IN  demand \o supply

RECURSIVE ScanZones(_, _, _)
\* one turn of the loop, the pushes of index i done
ScanZonesOn(candles, i, zones) ==
  IF Len(zones) >= 0 THEN ScanZones(candles, i + 1, zones) ELSE zones

\* for (let i = 2; i < Math.min(candles.length, 30); i++)
ScanZones(candles, i, zones) ==
  IF i < Min(Len(candles), ObScanLimit)
  THEN ScanZonesOn(candles, i, zones \o ZonesAt(candles, i))
  ELSE zones

\* the zones array as it stands when the loop ends
AllZones(candles) == ScanZones(candles, 2, <<>>)

detectOrderBlocks(candles) == SliceFront(AllZones(candles), ObCap)

(***************************************************************************)
(* detectFVG(candles)                                                      *)
(***************************************************************************)
\* the gaps the loop body pushes at JavaScript index i
GapsAt(candles, i) ==
  LET a == candles[i + 3]
      c == candles[i + 1]
      bearish == IF JsLt(a.high, c.low)
                 THEN <<[type |-> "bearish", top |-> c.low, bottom |-> a.high, i |-> i]>>
                 ELSE <<>>
      bullish == IF JsGt(a.low, c.high)
                 THEN <<[type |-> "bullish", top |-> a.low, bottom |-> c.high, i |-> i]>>
                 ELSE <<>>
  IN  bearish \o bullish

RECURSIVE ScanGaps(_, _, _)
\* one turn of the loop, the pushes of index i done
ScanGapsOn(candles, i, fvg) ==
  IF Len(fvg) >= 0 THEN ScanGaps(candles, i + 1, fvg) ELSE fvg

\* for (let i = 0; i < candles.length-2; i++)
ScanGaps(candles, i, fvg) ==
  IF i < Len(candles) - 2
  THEN ScanGapsOn(candles, i, fvg \o GapsAt(candles, i))
  ELSE fvg

\* the fvg array as it stands when the loop ends
AllGaps(candles) == ScanGaps(candles, 0, <<>>)

detectFVG(candles) == SliceFront(AllGaps(candles), FvgCap)

(***************************************************************************)
(* localAnalyze(candles, pair)                                             *)
(***************************************************************************)
\* (x).toFixed(digits) as a string value; NaN.toFixed gives "NaN"
FixedStr(v, digits) ==
  IF v.t = "nan" THEN Str(<<"N", "a", "N">>) ELSE Str(ToFixed(RatOf(v), digits))

\* lastPrice * factor
Times(v, factor) == IF v.t # "num" THEN NaN ELSE Num(RMul(RatOf(v), factor))

\* bias logic with the tie ema9 = ema20 given to Bullish
biasOfTieBullish(ema9, ema20, momentum) ==
  IF Truthy(ema9) /\ Truthy(ema20)
  THEN IF RLe(RatOf(ema20), RatOf(ema9)) THEN "Bullish" ELSE "Bearish"
  ELSE IF momentum.n > 0 THEN "Bullish"
       ELSE IF momentum.n < 0 THEN "Bearish" ELSE "Neutral"

\* bias logic, lines 130-135
biasOf(ema9, ema20, momentum) ==
  IF Truthy(ema9) /\ Truthy(ema20)
  THEN IF RLt(RatOf(ema20), RatOf(ema9)) THEN "Bullish" ELSE "Bearish"
  ELSE IF momentum.n > 0 THEN "Bullish"
       ELSE IF momentum.n < 0 THEN "Bearish" ELSE "Neutral"

\* the recommended levels with the two take-profit factors exchanged
recommendedOfSwapped(lastPrice, bias) ==
  [entry |-> lastPrice,
   tp1 |-> FixedStr(Times(lastPrice, IF bias = "Bullish" THEN Rat(1007, 1000)
                                                        ELSE Rat(993, 1000)), LevelDigits),
   tp2 |-> FixedStr(Times(lastPrice, IF bias = "Bullish" THEN Rat(1003, 1000)
                                                        ELSE Rat(997, 1000)), LevelDigits),
   sl  |-> FixedStr(Times(lastPrice, IF bias = "Bullish" THEN Rat(995, 1000)
                                                        ELSE Rat(1005, 1000)), LevelDigits)]

\* the recommended levels, lines 138-144
recommendedOf(lastPrice, bias) ==
  [entry |-> lastPrice,
   tp1 |-> FixedStr(Times(lastPrice, IF bias = "Bullish" THEN Rat(1003, 1000)
                                                        ELSE Rat(997, 1000)), LevelDigits),
   tp2 |-> FixedStr(Times(lastPrice, IF bias = "Bullish" THEN Rat(1007, 1000)
                                                        ELSE Rat(993, 1000)), LevelDigits),
   sl  |-> FixedStr(Times(lastPrice, IF bias = "Bullish" THEN Rat(995, 1000)
                                                        ELSE Rat(1005, 1000)), LevelDigits)]

\* the reported momentum: Number(momentum.toFixed(4))
reportedMomentum(momentum) == Num(ParseText(ToFixed(momentum, LevelDigits)))

\* the three interpolated parts of the reasoning string
reasoningOf(ema9, ema20, momentum) ==
  [ema9 |-> IF Truthy(ema9) THEN <<"=">> \o ToFixed(RatOf(ema9), ReasonDigits)
            ELSE <<"n", "/", "a">>,
   ema20 |-> IF Truthy(ema20) THEN <<"=">> \o ToFixed(RatOf(ema20), ReasonDigits)
             ELSE <<"n", "/", "a">>,
   momentum |-> ToFixed(momentum, ReasonDigits)]

RECURSIVE MapCloses(_, _, _)
\* one turn of the map, the close of index i parsed
MapClosesOn(candles, i, acc) ==
  IF Len(acc) > 0 THEN MapCloses(candles, i + 1, acc) ELSE acc

\* candles.map(c=>parseFloat(c.close))
MapCloses(candles, i, acc) ==
  IF i > Len(candles) THEN acc
  ELSE MapClosesOn(candles, i, Append(acc, parseFloat(candles[i].close)))

\* lines 146-156: the returned record
resultOf(candles, pair, lastPrice, ema9, ema20, momentum, bias) ==
  [pair |-> pair,
   bias |-> bias,
   ema9 |-> ema9,
   ema20 |-> ema20,
   momentum |-> reportedMomentum(momentum),
   orderBlocks |-> detectOrderBlocks(candles),
   fvg |-> detectFVG(candles),
   recommended |-> recommendedOf(lastPrice, bias),
   reasoning |-> reasoningOf(ema9, ema20, momentum)]

\* lines 122-144, the indicators computed
withIndicators(candles, pair, closes, ema9, ema20, momentum) ==
  resultOf(candles, pair, IF Len(closes) = 0 THEN Undefined ELSE Num(closes[1]),
           ema9, ema20, momentum, biasOf(ema9, ema20, momentum))

\* lines 122-124, closes computed
withCloses(candles, pair, closes) ==
  withIndicators(candles, pair, closes, ema(closes, Ema9Period), ema(closes, Ema20Period),
                 simpleMomentum(closes))

localAnalyze(candles, pair) == withCloses(candles, pair, MapCloses(candles, 1, <<>>))

(***************************************************************************)
(* Requests: the candle sequences a client or the market-data API supplies *)
(***************************************************************************)
\* most copies of the free candle that follows a run of equal candles
MaxTail == 1

\* longest sequence of finely priced candles
MaxFine == 2

\* longest drifting (trending) sequence
MaxDrift == 10

\* prices one hundred-thousandth apart, below the 4-decimal resolution
FineVals == {Rat(2, 100000), Rat(8, 100000)}

\* whole prices on both sides of a change in the number of digits
CoarseVals == {RInt(9), RInt(10)}

BaseVals == {RInt(0), RInt(9), RInt(10), RInt(100)}

\* lengths of the run of equal candles: none, one, and just below each of
\* the lengths the program treats specially (EMA periods, scan limit)
RunLens == {0, 1, Ema9Period - 1, Ema20Period - 1, ObScanLimit - 1, ObScanLimit}

\* OHLC candles over a set of prices: low <= open, close <= high
CandlesOver(V) ==
  {c \in [open : V, high : V, low : V, close : V] :
     /\ RLe(c.low, c.open) /\ RLe(c.low, c.close)
     /\ RLe(c.open, c.high) /\ RLe(c.close, c.high)}

Flat(v) == [open |-> v, high |-> v, low |-> v, close |-> v]

Shift(c, k) == [open  |-> RAdd(c.open, RInt(k)),  high  |-> RAdd(c.high, RInt(k)),
                low   |-> RAdd(c.low, RInt(k)),   close |-> RAdd(c.close, RInt(k))]

\* all sequences over S of length lo..hi
SeqsOf(S, lo, hi) == UNION {[1..n -> S] : n \in lo..hi}

\* a run of n equal flat candles followed by m copies of one free candle
RunShapes ==
  {[i \in 1..(n + m) |-> IF i <= n THEN Flat(v) ELSE c] :
     n \in RunLens, v \in BaseVals, m \in 0..MaxTail, c \in CandlesOver(CoarseVals)}

FineShapes == SeqsOf({Flat(v) : v \in FineVals}, 1, MaxFine)

\* a pattern of one or two candles repeated while the price level moves by
\* step at every index; the level starts where the prices stay positive
\* and pass between one and two digits
DriftStart(step) == IF step < 0 THEN 5 ELSE IF step > 0 THEN -5 ELSE 0

\* one three-candle window, and the longest sequences
DriftLens == {3} \cup ((MaxDrift - 2)..MaxDrift)

DriftShapes ==
  {[i \in 1..n |-> Shift(pat[((i - 1) % Len(pat)) + 1], DriftStart(step) + step * (i - 1))] :
     n \in DriftLens, step \in {-1, 0, 1},
     pat \in SeqsOf(CandlesOver(CoarseVals), 1, 2)}

Shapes == RunShapes \cup FineShapes \cup DriftShapes

\* the same candles with numeric fields / with numeric-string fields
AsNumbers(shape) ==
  [i \in 1..Len(shape) |->
     [open |-> Num(shape[i].open), high |-> Num(shape[i].high),
      low |-> Num(shape[i].low), close |-> Num(shape[i].close)]]

AsStrings(shape) ==
  [i \in 1..Len(shape) |->
     [open  |-> Str(NumberToString(shape[i].open)),
      high  |-> Str(NumberToString(shape[i].high)),
      low   |-> Str(NumberToString(shape[i].low)),
      close |-> Str(NumberToString(shape[i].close))]]

\* a JSON body carries numbers or strings; the market-data API sends strings
BodyCandles == {AsNumbers(s) : s \in Shapes} \cup {AsStrings(s) : s \in Shapes}

FetchedCandles == {AsStrings(s) : s \in Shapes}

\* body.ohlc / td.data.values when the property is missing
Missing == [def |-> FALSE, items |-> <<>>]

Given(items) == [def |-> TRUE, items |-> items]

Bodies == [pair : {"", "EUR/USD"},
           ohlc : {Missing} \cup {Given(c) : c \in BodyCandles}]

(***************************************************************************)
(* The remote model's reply                                                *)
(***************************************************************************)
\* texts the remote model may produce
AiTexts == {"{\"bias\":\"Bullish\"}", "Bias is Bullish.", "Here: {\"bias\":\"Bullish\"}",
            "{bias: Bullish", "null"}

\* the responses object: output_text, else output[0].content[0].text, else
\* neither (the whole object is then stringified)
RemoteResps == {[output_text |-> t, content_text |-> ""] : t \in AiTexts}
               \cup {[output_text |-> "", content_text |-> "Bias is Bullish."],
                     [output_text |-> "", content_text |-> ""]}

Stringified == "{\"output_text\":\"\",\"output\":[]}"

\* aiText.indexOf("{") >= 0 ? aiText.slice(jsonStart) : aiText
JsonStr(aiText) ==
  IF aiText = "Here: {\"bias\":\"Bullish\"}" THEN "{\"bias\":\"Bullish\"}" ELSE aiText

\* JSON.parse(jsonStr) inside try/catch: the parsed value, or null on a
\* syntax error; JSON null parses to null as well
JsonParse(jsonStr) ==
  IF jsonStr \in {"{\"bias\":\"Bullish\"}", Stringified}
  THEN [parsed |-> TRUE, json |-> jsonStr]
  ELSE [parsed |-> FALSE, json |-> ""]

\* line 196
aiTextOf(resp) ==
  IF resp.output_text # "" THEN resp.output_text
  ELSE IF resp.content_text # "" THEN resp.content_text
  ELSE Stringified

(***************************************************************************)
(* State of one POST /analyze request                                      *)
(***************************************************************************)
VARIABLES
  openaiClient,  \* TRUE when OPENAI_API_KEY was set and the client was built
  body,          \* req.body
  pc,            \* where the handler is: received, awaitFetch, awaitOpenAI, done
  pair,          \* the handler's local pair
  candles,       \* the handler's local candles
  aiText,        \* the handler's local aiText ("" until the remote call resolves)
  responses,     \* what was sent on res, in order
  log            \* calls made, in order: fetch, openai, localAnalyze, console.error

vars == <<openaiClient, body, pc, pair, candles, aiText, responses, log>>

Reply(status, payload) == [status |-> status, body |-> payload]

LocalCall(c) == [op |-> "localAnalyze", n |-> Len(c), text |-> ""]

\* the guard of line 172 without its length test
NoCandlesMissingOnly(c) == ~c.def

\* line 172: if (!candles || !candles.length)
NoCandles(c) == ~c.def \/ Len(c.items) = 0

\* lines 172-220 up to the first await or return, once candles is set:
\* what is sent, what is called, where the handler stands
AfterCandles(c, p) ==
  IF NoCandles(c)
  THEN [pc |-> "done", log |-> <<>>,
        send |-> <<Reply(400, [error |-> "No candle data available"])>>]
  ELSE IF openaiClient
  THEN [pc |-> "awaitOpenAI", log |-> <<[op |-> "openai", n |-> 0, text |-> ""]>>, send |-> <<>>]
  ELSE [pc |-> "done", log |-> <<LocalCall(c.items)>>,
        send |-> <<Reply(200, [status |-> "success", source |-> "local",
                               analysis |-> localAnalyze(c.items, p)])>>]

\* the handler goes on as AfterCandles found: r = [pc, log, send]
Continue(c, r) ==
  /\ candles' = c
  /\ pc' = r.pc
  /\ log' = log \o r.log
  /\ responses' = responses \o r.send

\* line 163: body.pair || "XAU/USD"
pairOf(b) == IF b.pair = "" THEN "XAU/USD" ELSE b.pair

Init ==
  /\ openaiClient \in BOOLEAN
  /\ body \in Bodies
  /\ pc = "received"
  /\ pair = ""
  /\ candles = Missing
  /\ aiText = ""
  /\ responses = <<>>
  /\ log = <<>>

\* lines 161-170 with candles in the body: straight on to line 172
BeginWithCandles ==
  /\ pc = "received"
  /\ body.ohlc.def
  /\ pair' = pairOf(body)
  /\ Continue(body.ohlc, AfterCandles(body.ohlc, pairOf(body)))
  /\ UNCHANGED <<openaiClient, body, aiText>>

\* lines 161-167 without candles: the market-data request is issued
BeginFetch ==
  /\ pc = "received"
  /\ ~body.ohlc.def
  /\ pair' = pairOf(body)
  /\ pc' = "awaitFetch"
  /\ log' = Append(log, [op |-> "fetch", n |-> 0, text |-> ""])
  /\ UNCHANGED <<openaiClient, body, candles, aiText, responses>>

\* line 170: the request resolves; td.data.values may be missing or empty
FetchReturns ==
  /\ pc = "awaitFetch"
  /\ \E values \in {Missing, Given(<<>>)} \cup {Given(c) : c \in FetchedCandles} :
       Continue(values, AfterCandles(values, pair))
  /\ UNCHANGED <<openaiClient, body, pair, aiText>>

\* line 167 rejects (or td.data is not an object): outer catch, lines 221-224
FetchThrows ==
  /\ pc = "awaitFetch"
  /\ pc' = "done"
  /\ log' = Append(log, [op |-> "console.error", n |-> 0, text |-> "Analyze error:"])
  /\ responses' = Append(responses, Reply(500, [error |-> "Server analyze error"]))
  /\ UNCHANGED <<openaiClient, body, pair, candles, aiText>>

\* lines 203-209: JSON goes out as it is, text goes out with the local analysis
OnReply(text, parsed) ==
  /\ aiText' = text
  /\ IF parsed.parsed
     THEN /\ responses' = Append(responses,
                Reply(200, [status |-> "success", source |-> "openai", analysis |-> parsed]))
          /\ log' = log
     ELSE /\ responses' = Append(responses,
                Reply(200, [status |-> "success", source |-> "openai_text",
                            ai_text |-> text,
                            local |-> localAnalyze(candles.items, pair)]))
          /\ log' = Append(log, LocalCall(candles.items))

\* lines 189-209: the remote call resolves
OpenAIReturns ==
  /\ pc = "awaitOpenAI"
  /\ \E resp \in RemoteResps : OnReply(aiTextOf(resp), JsonParse(JsonStr(aiTextOf(resp))))
  /\ pc' = "done"
  /\ UNCHANGED <<openaiClient, body, pair, candles>>

\* a rejected remote call answered with an error instead of the fallback
OpenAIThrowsFails ==
  /\ pc = "awaitOpenAI"
  /\ responses' = Append(responses, Reply(500, [error |-> "Server analyze error"]))
  /\ log' = log \o <<[op |-> "console.error", n |-> 0, text |-> "OpenAI error:"]>>
  /\ pc' = "done"
  /\ UNCHANGED <<openaiClient, body, pair, candles, aiText>>

\* lines 210-215: the remote call rejects (quota, network, malformed reply)
OpenAIThrows ==
  /\ pc = "awaitOpenAI"
  /\ responses' = Append(responses,
        Reply(200, [status |-> "success", source |-> "local_fallback",
                    analysis |-> localAnalyze(candles.items, pair),
                    note |-> "OpenAI failed or quota exceeded"]))
  /\ log' = log \o <<[op |-> "console.error", n |-> 0, text |-> "OpenAI error:"],
                      LocalCall(candles.items)>>
  /\ pc' = "done"
  /\ UNCHANGED <<openaiClient, body, pair, candles, aiText>>

Next ==
  \/ BeginWithCandles
  \/ BeginFetch
  \/ FetchReturns
  \/ FetchThrows
  \/ OpenAIReturns
  \/ OpenAIThrows

Spec == Init /\ [][Next]_vars

(***************************************************************************)
(* Vocabulary of the properties                                            *)
(***************************************************************************)
\* the responses that carry a localAnalyze result, and that result
HasLocal(r) == r.status = 200 /\ r.body.source \in {"local", "local_fallback", "openai_text"}

LocalIn(r) == IF r.body.source = "openai_text" THEN r.body.local ELSE r.body.analysis

Analyses == {LocalIn(responses[j]) : j \in {k \in 1..Len(responses) : HasLocal(responses[k])}}

\* the candle sequence localAnalyze was given, and its parsed closes
Arg == candles.items

Closes == MapCloses(Arg, 1, <<>>)

\* the i-th close, newest first
CloseAt(i) == parseFloat(Arg[i].close)

\* the price a number or a numeric string stands for
Val(v) == ToNumber(v)

Sign(x) == IF x.n > 0 THEN 1 ELSE IF x.n < 0 THEN -1 ELSE 0

Called(op) == \E j \in 1..Len(log) : log[j].op = op

(***************************************************************************)
(* C1  bias                                                                *)
(***************************************************************************)
MomentumBias(m) == IF m.n > 0 THEN "Bullish" ELSE IF m.n < 0 THEN "Bearish" ELSE "Neutral"

\* C1: in every localAnalyze result, when ema9 and ema20 are both non-null
\* the bias is Bullish if ema9 > ema20 and Bearish if ema9 <= ema20; the
\* momentum-sign fallback decides only when one of the two is null.
C1_BiasFollowsEma ==
  \A a \in Analyses :
    IF a.ema9 # Null /\ a.ema20 # Null
    THEN a.bias = (IF RLt(RatOf(a.ema20), RatOf(a.ema9)) THEN "Bullish" ELSE "Bearish")
    ELSE a.bias = MomentumBias(IF Len(Arg) < 2 THEN RInt(0)
                               ELSE RSub(CloseAt(1), CloseAt(2)))

(***************************************************************************)
(* C2  zones and gaps are intervals                                        *)
(***************************************************************************)
\* C2: every zone detectOrderBlocks returns has low <= high and every gap
\* detectFVG returns has top >= bottom, as prices.
C2_ZonesAndGapsOrdered ==
  \A a \in Analyses :
    /\ \A j \in 1..Len(a.orderBlocks) :
         RLe(Val(a.orderBlocks[j].low), Val(a.orderBlocks[j].high))
    /\ \A j \in 1..Len(a.fvg) :
         RLe(Val(a.fvg[j].bottom), Val(a.fvg[j].top))

(***************************************************************************)
(* C3  the cap keeps the first five matches in scan order                  *)
(***************************************************************************)
\* the (index, type) pairs the order-block scan matches
ZoneMatches(cs) ==
  {m \in (2..(Min(Len(cs), 30) - 1)) \X {"demand", "supply"} :
     IF m[2] = "demand"
     THEN /\ JsGt(cs[m[1] + 1].close, cs[m[1] + 1].open)
          /\ JsLt(cs[m[1] + 1].low, cs[m[1]].low)
          /\ JsLe(cs[m[1]].low, cs[m[1] - 1].low)
     ELSE /\ JsLt(cs[m[1] + 1].close, cs[m[1] + 1].open)
          /\ JsGt(cs[m[1] + 1].high, cs[m[1]].high)
          /\ JsGe(cs[m[1]].high, cs[m[1] - 1].high)}

\* the (index, type) pairs the gap scan matches
GapMatches(cs) ==
  {m \in (0..(Len(cs) - 3)) \X {"bearish", "bullish"} :
     IF m[2] = "bearish"
     THEN JsLt(cs[m[1] + 3].high, cs[m[1] + 1].low)
     ELSE JsGt(cs[m[1] + 3].low, cs[m[1] + 1].high)}

\* scan order: by index, and at one index the first test before the second
Before(x, y) == x[1] < y[1] \/ (x[1] = y[1] /\ x[2] \in {"demand", "bearish"} /\ x[2] # y[2])

\* position of match m among the matches M, in scan order
Rank(m, M) == Cardinality({x \in M : Before(x, m)}) + 1

\* C3: detectOrderBlocks and detectFVG each return at most 5 entries: the
\* first min(5, k) of the k matches of the full scan, in scan order.
C3_FirstFiveInScanOrder ==
  \A a \in Analyses :
    /\ Len(a.orderBlocks) = Min(5, Cardinality(ZoneMatches(Arg)))
    /\ \A j \in 1..Len(a.orderBlocks) :
         /\ <<a.orderBlocks[j].idx, a.orderBlocks[j].type>> \in ZoneMatches(Arg)
         /\ Rank(<<a.orderBlocks[j].idx, a.orderBlocks[j].type>>, ZoneMatches(Arg)) = j
    /\ Len(a.fvg) = Min(5, Cardinality(GapMatches(Arg)))
    /\ \A j \in 1..Len(a.fvg) :
         /\ <<a.fvg[j].i, a.fvg[j].type>> \in GapMatches(Arg)
         /\ Rank(<<a.fvg[j].i, a.fvg[j].type>>, GapMatches(Arg)) = j

\* both scans match more than five times and both lists are cut to five
C3_Witness ==
  \E a \in Analyses :
    /\ Cardinality(ZoneMatches(Arg)) > 5 /\ Len(a.orderBlocks) = 5
    /\ Cardinality(GapMatches(Arg)) > 5 /\ Len(a.fvg) = 5

(***************************************************************************)
(* C4  recommended levels                                                  *)
(***************************************************************************)
\* signed offset of a level from the entry
Offset(a, level) == RSub(Val(level), RatOf(a.recommended.entry))

\* tp1 nearer than tp2, both on the side the bias names, sl on the other
LevelsOrdered(a) ==
  /\ RLt(RAbs(Offset(a, a.recommended.tp1)), RAbs(Offset(a, a.recommended.tp2)))
  /\ Sign(Offset(a, a.recommended.tp1)) = (IF a.bias = "Bullish" THEN 1 ELSE -1)
  /\ Sign(Offset(a, a.recommended.tp2)) = Sign(Offset(a, a.recommended.tp1))
  /\ Sign(Offset(a, a.recommended.sl)) = -Sign(Offset(a, a.recommended.tp1))

\* C4 as stated: in every result with bias Bullish or Bearish, tp1 is
\* strictly nearer to the entry than tp2, on the same side, and sl is
\* strictly on the other side.
C4_LevelsOrdered ==
  \A a \in Analyses : a.bias \in {"Bullish", "Bearish"} => LevelsOrdered(a)

\* C4 amended: the same, whenever the most recent close is between 1 and
\* 1000000.
C4_LevelsOrderedFromOne ==
  \A a \in Analyses :
    (a.bias \in {"Bullish", "Bearish"} /\ a.recommended.entry.t = "num"
       /\ RLe(RInt(1), RatOf(a.recommended.entry))
       /\ RLe(RatOf(a.recommended.entry), RInt(1000000)))
    => LevelsOrdered(a)

C4_Witness ==
  \E a \in Analyses :
    /\ a.bias = "Bullish" /\ a.recommended.entry.t = "num"
    /\ RLe(RInt(1), RatOf(a.recommended.entry))
    /\ a.ema9 # Null

(***************************************************************************)
(* C5  short sequences                                                     *)
(***************************************************************************)
\* C5: a sequence shorter than an EMA period (9, 20) is analysed without
\* an error and the EMA of that period is null in the result.
C5_ShortGivesNull ==
  /\ Called("localAnalyze") =>
       /\ Len(responses) = 1 /\ HasLocal(responses[1])
       /\ Len(Arg) < 9 => ema(Closes, 9) = Null
       /\ Len(Arg) < 20 => ema(Closes, 20) = Null
  /\ \A a \in Analyses :
       /\ Len(Arg) < 9 => a.ema9 = Null
       /\ Len(Arg) < 20 => a.ema20 = Null

C5_Witness ==
  \E a \in Analyses :
    Len(Arg) >= 9 /\ Len(Arg) < 20 /\ a.ema9 # Null /\ a.ema20 = Null

(***************************************************************************)
(* C6  momentum                                                            *)
(***************************************************************************)
\* closes[0] - closes[1], or 0 for fewer than two closes
LastStep ==
  IF Len(Arg) < 2 THEN RInt(0)
  ELSE RSub(CloseAt(1), CloseAt(2))

\* m is x rounded to a multiple of 1/10000
RoundedTo4(m, x) == 10000 % m.d = 0 /\ RLe(RAbs(RSub(m, x)), Rat(1, 20000))

\* C6 as stated: the reported momentum equals closes[0] - closes[1], and 0
\* for fewer than two candles.
C6_MomentumExact == \A a \in Analyses : RatOf(a.momentum) = LastStep

\* C6 amended: the reported momentum is closes[0] - closes[1] rounded to
\* 4 decimals, and 0 for fewer than two candles.
C6_MomentumRounded ==
  \A a \in Analyses : a.momentum.t = "num" /\ RoundedTo4(RatOf(a.momentum), LastStep)

C6_Witness ==
  \E a \in Analyses :
    Len(Arg) >= 2 /\ LastStep.n # 0 /\ RatOf(a.momentum) # LastStep
    /\ RoundedTo4(RatOf(a.momentum), LastStep)

(***************************************************************************)
(* C7  flat candles (Scenario A)                                           *)
(***************************************************************************)
\* what Scenario A expects of a result for the price v
FlatResult(a, v) ==
  /\ a.momentum = Num(RInt(0))
  /\ a.ema9 = Num(v) /\ a.ema20 = Num(v)
  /\ a.bias = "Bearish"
  /\ a.recommended.entry = Num(v)
  /\ Val(a.recommended.sl) = RMul(v, Rat(1005, 1000))
  /\ Val(a.recommended.tp1) = RMul(v, Rat(997, 1000))
  /\ a.orderBlocks = <<>> /\ a.fvg = <<>>

AllFlat(cs) ==
  \A i \in 1..Len(cs) :
    /\ cs[i].open = cs[1].close /\ cs[i].high = cs[1].close
    /\ cs[i].low = cs[1].close /\ cs[i].close = cs[1].close

\* C7 as stated: at least 20 candles whose closes all equal one positive
\* price v give momentum 0, ema9 = ema20 = v, bias Bearish, entry v,
\* sl 1.005 v, tp1 0.997 v, no zones and no gaps.
C7_EqualCloses ==
  \A a \in Analyses :
    (Len(Arg) >= 20 /\ CloseAt(1).n > 0 /\ \A i \in 1..Len(Arg) : CloseAt(i) = CloseAt(1))
    => FlatResult(a, CloseAt(1))

\* C7 amended: at least 20 flat candles (open = high = low = close) of one
\* whole price v between 1 and 1000000 give that result.
C7_FlatCandles ==
  \A a \in Analyses :
    (Len(Arg) >= 20 /\ AllFlat(Arg) /\ CloseAt(1).d = 1
       /\ CloseAt(1).n >= 1 /\ CloseAt(1).n <= 1000000)
    => FlatResult(a, CloseAt(1))

\* Scenario A itself: 30 flat candles at 100
C7_Witness ==
  \E a \in Analyses :
    Len(Arg) = 30 /\ AllFlat(Arg) /\ CloseAt(1) = RInt(100) /\ FlatResult(a, RInt(100))

(***************************************************************************)
(* C8  the order-block conditions                                          *)
(***************************************************************************)
\* the demand / supply shape at index i, read on the prices
DemandShape(cs, i) ==
  /\ RLt(Val(cs[i + 1].open), Val(cs[i + 1].close))
  /\ RLt(Val(cs[i + 1].low), Val(cs[i].low))
  /\ RLe(Val(cs[i].low), Val(cs[i - 1].low))

SupplyShape(cs, i) ==
  /\ RLt(Val(cs[i + 1].close), Val(cs[i + 1].open))
  /\ RLt(Val(cs[i].high), Val(cs[i + 1].high))
  /\ RLe(Val(cs[i - 1].high), Val(cs[i].high))

InZones(zones, z) == \E j \in 1..Len(zones) : zones[j] = z

\* zones holds a demand zone at exactly the indexes of the demand shape, a
\* supply zone at exactly those of the supply shape, and nothing else
ZonesFollowShapes(cs, zones) ==
  /\ \A i \in 2..(Min(Len(cs), 30) - 1) :
       /\ DemandShape(cs, i) <=>
            InZones(zones, [type |-> "demand", low |-> cs[i + 1].low,
                            high |-> cs[i + 1].close, idx |-> i])
       /\ SupplyShape(cs, i) <=>
            InZones(zones, [type |-> "supply", low |-> cs[i + 1].close,
                            high |-> cs[i + 1].high, idx |-> i])
  /\ \A j \in 1..Len(zones) :
       /\ zones[j].idx \in 2..(Min(Len(cs), 30) - 1)
       /\ zones[j].type \in {"demand", "supply"}
  /\ Len(zones) <= 2 * Len(cs)

\* C8: before the cap, index i in 2..min(length,30)-1 has a demand zone
\* {low: n.low, high: n.close} exactly when n.close > n.open, n.low < p.low
\* and p.low <= c.low, and a supply zone {low: n.close, high: n.high}
\* exactly when n.close < n.open, n.high > p.high and p.high >= c.high;
\* there are no other zones.
C8_ZoneConditions ==
  Called("localAnalyze") => ZonesFollowShapes(Arg, AllZones(Arg))

(***************************************************************************)
(* C9  no analysis without candles                                         *)
(***************************************************************************)
Rejected == responses = <<Reply(400, [error |-> "No candle data available"])>>

\* the handler reached line 172: candles came with the body or the fetch resolved
FetchRaised == \E j \in 1..Len(log) : log[j].op = "console.error" /\ log[j].text = "Analyze error:"

Resolved == pc \in {"awaitOpenAI", "done"} /\ ~FetchRaised

\* C9: localAnalyze is never called with a missing or empty candle
\* sequence; a request whose candles are missing or empty at line 172 is
\* answered 400 "No candle data available" with no remote call and no
\* local analysis.
C9_NoAnalysisWithoutCandles ==
  /\ \A j \in 1..Len(log) : log[j].op = "localAnalyze" => log[j].n > 0 /\ candles.def /\ candles.items # <<>>
  /\ (Resolved /\ (~candles.def \/ candles.items = <<>>)) =>
       Rejected /\ ~Called("openai") /\ ~Called("localAnalyze")

C9_Witness ==
  pc = "done" /\ candles = Given(<<>>) /\ Rejected /\ log = <<>>

(***************************************************************************)
(* C10  one response, by source                                            *)
(***************************************************************************)
Source(r) == IF r.status = 200 THEN r.body.source ELSE "error"

RemoteRaised == \E j \in 1..Len(log) : log[j].op = "console.error" /\ log[j].text = "OpenAI error:"

\* C10: a request ends with exactly one response; with candles present a
\* failing remote call never gives an error response: no client gives
\* source local, a raising call local_fallback, unparsable text
\* openai_text with the text, each with the localAnalyze result; source
\* openai only for output parsed as JSON, and then localAnalyze is not called.
C10_OneResponseBySource ==
  /\ Len(responses) = (IF pc = "done" THEN 1 ELSE 0)
  /\ pc \in {"received", "awaitFetch", "awaitOpenAI", "done"}
  /\ (pc = "done" /\ Resolved /\ candles.def /\ candles.items # <<>>) =>
       /\ responses[1].status = 200
       /\ ~openaiClient =>
            /\ Source(responses[1]) = "local"
            /\ responses[1].body.analysis = localAnalyze(Arg, pair)
       /\ (openaiClient /\ RemoteRaised) =>
            /\ Source(responses[1]) = "local_fallback"
            /\ responses[1].body.analysis = localAnalyze(Arg, pair)
       /\ (openaiClient /\ ~RemoteRaised /\ ~JsonParse(JsonStr(aiText)).parsed) =>
            /\ Source(responses[1]) = "openai_text"
            /\ responses[1].body.ai_text = aiText
            /\ responses[1].body.local = localAnalyze(Arg, pair)
       /\ Source(responses[1]) = "openai" =>
            /\ openaiClient /\ ~RemoteRaised
            /\ JsonParse(JsonStr(aiText)).parsed
            /\ ~Called("localAnalyze")
       /\ Source(responses[1]) # "openai" => Called("localAnalyze")

C10_Witness ==
  /\ pc = "done" /\ RemoteRaised /\ Len(responses) = 1
  /\ Source(responses[1]) = "local_fallback"
  /\ responses[1].body.analysis = localAnalyze(Arg, pair)
====
